---- MODULE Spec2Model ----
(***************************************************************************)
(* Model of the two programs of the repository:                            *)
(*   city_story_map.py       - the mode-selected layered city map          *)
(*   excel_to_map_report.py  - the spreadsheet -> map + report pipeline    *)
(* Text cells are sequences of one-character strings, so that trimming,    *)
(* lowercasing and numeric parsing are computed as the code computes them. *)
(* Numbers are integers; a mean is the exact rational <<sum, count>> and   *)
(* the mean of nothing, 0/0, is pandas' NaN.                               *)
(***************************************************************************)
EXTENDS Integers, Sequences, FiniteSets, TLC

VARIABLES pc, argv, mode, m, output_name,
          points_csv, routes_csv, df_points, df_routes, report, err

vars == <<pc, argv, mode, m, output_name,
          points_csv, routes_csv, df_points, df_routes, report, err>>

----------------------------------------------------------------------------
(* Bounds of the explored inputs *)

MaxRawRows == 2
MaxCoordRows == 2
MaxSamples == 3
MaxPoints == 3
MaxPad == 1
MaxTypeRows == 3

----------------------------------------------------------------------------
(* Python str helpers *)

UpperChars == <<"A","B","C","D","E","F","G","H","I","J","K","L","M",
                "N","O","P","Q","R","S","T","U","V","W","X","Y","Z">>
LowerChars == <<"a","b","c","d","e","f","g","h","i","j","k","l","m",
                "n","o","p","q","r","s","t","u","v","w","x","y","z">>

Whitespace == {" ", "\t"}

MinOf(S) == CHOOSE x \in S : \A y \in S : x <= y
MaxOf(S) == CHOOSE x \in S : \A y \in S : x >= y

lower_char(c) ==
    IF \E i \in 1..Len(UpperChars) : UpperChars[i] = c
    THEN LowerChars[CHOOSE i \in 1..Len(UpperChars) : UpperChars[i] = c]
    ELSE c

upper_char(c) ==
    IF \E i \in 1..Len(LowerChars) : LowerChars[i] = c
    THEN UpperChars[CHOOSE i \in 1..Len(LowerChars) : LowerChars[i] = c]
    ELSE c

\* str.lower()
lower(s) == [i \in 1..Len(s) |-> lower_char(s[i])]

\* str.upper(), used to enumerate differently-cased inputs
upper(s) == [i \in 1..Len(s) |-> upper_char(s[i])]

\* str.strip(): drops leading and trailing whitespace
strip(s) ==
    LET keep == {i \in 1..Len(s) : s[i] \notin Whitespace}
    IN  IF keep = {} THEN <<>> ELSE SubSeq(s, MinOf(keep), MaxOf(keep))

----------------------------------------------------------------------------
(* Shapes shared by both programs *)

\* a folium child element of the map
Child(kind, name, color, locations) ==
    [kind |-> kind, name |-> name, color |-> color, locations |-> locations]

NoMap == [location |-> <<>>, tiles |-> "", children |-> <<>>]
NoErr == [type |-> "", cols |-> <<>>]
NoFile == [exists |-> FALSE, columns |-> {}, rows |-> <<>>]
NoReport == [written |-> FALSE, n_points |-> 0, parts |-> <<>>]

----------------------------------------------------------------------------
(* city_story_map.py *)

\* (45.515, -122.679) in thousandths of a degree
CITY_CENTER == <<45515, -122679>>

create_base_map ==
    [location |-> CITY_CENTER, tiles |-> "",
     children |-> <<Child("TileLayer", "City Map", "", <<>>)>>]

get_routes_data ==
    << [name |-> "Tram Line", color |-> "blue",
        points |-> << <<45523, -122676>>, <<45521, -122681>>, <<45518, -122683>>,
                      <<45515, -122682>>, <<45511, -122678>> >>],
       [name |-> "Bus Route", color |-> "red",
        points |-> << <<45528, -122675>>, <<45525, -122672>>, <<45521, -122670>>,
                      <<45517, -122673>>, <<45514, -122677>> >>] >>

get_landmarks_data ==
    << [name |-> "City Library", kind |-> "library", lat |-> 45518, lon |-> -122678],
       [name |-> "Central Park", kind |-> "park", lat |-> 45521, lon |-> -122685],
       [name |-> "Art Museum", kind |-> "museum", lat |-> 45522, lon |-> -122680],
       [name |-> "Historic Square", kind |-> "square", lat |-> 45516, lon |-> -122676],
       [name |-> "Riverside Market", kind |-> "market", lat |-> 45513, lon |-> -122671] >>

\* kind.title() of the landmark kinds
title(kind) ==
    CASE kind = "library" -> "Library"
      [] kind = "park" -> "Park"
      [] kind = "museum" -> "Museum"
      [] kind = "square" -> "Square"
      [] kind = "market" -> "Market"
      [] OTHER -> kind

\* one FeatureGroup per route, holding its polyline (and a start marker)
add_routes(mp, routes) ==
    [mp EXCEPT !.children = @ \o
        [i \in 1..Len(routes) |->
            Child("FeatureGroup", routes[i].name, routes[i].color, routes[i].points)]]

\* kinds in first-seen order, as the insertion-ordered dict keeps them
RECURSIVE first_seen(_)
first_seen(s) ==
    IF s = <<>> THEN <<>>
    ELSE LET rest == first_seen(SubSeq(s, 1, Len(s) - 1))
             x == s[Len(s)]
         IN  IF \E i \in 1..Len(rest) : rest[i] = x THEN rest ELSE Append(rest, x)

\* one FeatureGroup per landmark kind, holding that kind's markers
add_landmarks(mp, landmarks) ==
    LET kinds == first_seen([i \in 1..Len(landmarks) |-> landmarks[i].kind])
        locs(k) == SelectSeq([i \in 1..Len(landmarks) |->
                                 <<landmarks[i].kind, landmarks[i].lat, landmarks[i].lon>>],
                             LAMBDA t : t[1] = k)
    IN  [mp EXCEPT !.children = @ \o
            [i \in 1..Len(kinds) |->
                Child("FeatureGroup", "Landmarks: " \o title(kinds[i]), "",
                      [j \in 1..Len(locs(kinds[i])) |->
                          <<locs(kinds[i])[j][2], locs(kinds[i])[j][3]>>])]]

\* the heat samples are random draws; only the layer itself is kept
add_heatmap_layer(mp) ==
    [mp EXCEPT !.children = Append(@, Child("HeatMap", "Activity heatmap", "", <<>>))]

add_layer_control(mp) ==
    [mp EXCEPT !.children = Append(@, Child("LayerControl", "", "", <<>>))]

S_routes == <<"r","o","u","t","e","s">>
S_landmarks == <<"l","a","n","d","m","a","r","k","s">>
S_heatmap == <<"h","e","a","t","m","a","p">>
S_full == <<"f","u","l","l">>
S_base == <<"b","a","s","e">>

build_map_routes_bug(md) ==
    LET m0 == create_base_map
        m1 == IF md \in {S_routes} THEN add_routes(m0, get_routes_data) ELSE m0
        m2 == IF md \in {S_landmarks, S_full}
              THEN add_landmarks(m1, get_landmarks_data) ELSE m1
        m3 == IF md \in {S_heatmap, S_full} THEN add_heatmap_layer(m2) ELSE m2
    IN  add_layer_control(m3)

build_map(md) ==
    LET m0 == create_base_map
        m1 == IF md \in {S_routes, S_full} THEN add_routes(m0, get_routes_data) ELSE m0
        m2 == IF md \in {S_landmarks, S_full}
              THEN add_landmarks(m1, get_landmarks_data) ELSE m1
        m3 == IF md \in {S_heatmap, S_full} THEN add_heatmap_layer(m2) ELSE m2
    IN  add_layer_control(m3)

valid_modes == {S_base, S_routes, S_landmarks, S_heatmap, S_full}

select_mode_reject_bug(args) ==
    LET md == IF Len(args) > 0 THEN lower(args[1]) ELSE S_base
    IN  IF md \notin valid_modes THEN S_base ELSE md

\* __main__: the mode actually handed to build_map
select_mode(args) ==
    LET md == IF Len(args) > 0 THEN lower(args[1]) ELSE S_base
    IN  IF md \notin valid_modes THEN S_full ELSE md

\* differently-cased spellings of a word: each prefix upper-cased, and the
\* word with a single upper-cased letter
Spellings(w) ==
    {[i \in 1..Len(w) |-> IF i <= k THEN upper_char(w[i]) ELSE w[i]] : k \in 0..Len(w)}
    \cup {[i \in 1..Len(w) |-> IF i = k THEN upper_char(w[i]) ELSE w[i]] : k \in 1..Len(w)}

ModeWords ==
    valid_modes \cup
    { <<"x","y","z">>, <<"f","u","l">>, <<"b","a","s","e","s">>, <<" ","b","a","s","e">>,
      <<"r","o","u","t","e">>, <<"h","e","a","t">>, <<"m","a","p">>, <<"a","l","l">>, <<>> }

Argvs == {<<>>} \cup {<<s>> : s \in UNION {Spellings(w) : w \in ModeWords}}

InitMode ==
    /\ pc = "main"
    /\ argv \in Argvs
    /\ mode = <<>>
    /\ m = NoMap
    /\ output_name = <<>>
    /\ points_csv = NoFile
    /\ routes_csv = NoFile
    /\ df_points = NoFile
    /\ df_routes = NoFile
    /\ report = NoReport
    /\ err = NoErr

\* __main__ lines 209-216
Main ==
    /\ pc = "main"
    /\ mode' = select_mode(argv)
    /\ pc' = "build_map"
    /\ UNCHANGED <<argv, m, output_name, points_csv, routes_csv,
                   df_points, df_routes, report, err>>

\* build_map(mode), called from __main__
BuildMap ==
    /\ pc = "build_map"
    /\ m' = build_map(mode)
    /\ output_name' = <<"city_story_map_", mode, ".html">>
    /\ pc' = "saved"
    /\ UNCHANGED <<argv, mode, points_csv, routes_csv,
                   df_points, df_routes, report, err>>

NextMode == Main \/ BuildMap

SpecMode == InitMode /\ [][NextMode]_vars

----------------------------------------------------------------------------
(* excel_to_map_report.py: cells, numbers and frames *)

Digits == <<"0","1","2","3","4","5","6","7","8","9">>

is_digit(c) == \E i \in 1..Len(Digits) : Digits[i] = c
digit_value(c) == (CHOOSE i \in 1..Len(Digits) : Digits[i] = c) - 1

RECURSIVE parse_int(_)
parse_int(s) ==
    IF s = <<>> THEN 0
    ELSE 10 * parse_int(SubSeq(s, 1, Len(s) - 1)) + digit_value(s[Len(s)])

NaN == [nan |-> TRUE, v |-> 0]
Num(n) == [nan |-> FALSE, v |-> n]

\* an empty cell is read as NaN by read_csv
isna(cell) == cell = <<>>

\* pd.to_numeric(cell, errors="coerce") on the text of one cell
to_numeric(cell) ==
    IF cell # <<>> /\ \A i \in 1..Len(cell) : is_digit(cell[i])
    THEN Num(parse_int(cell)) ELSE NaN

\* str(x) of a cell: a missing cell prints as "nan"
str(cell) == IF isna(cell) THEN <<"n","a","n">> ELSE cell

EmptyFrame == [exists |-> TRUE, columns |-> {}, rows |-> <<>>]
Frame(columns, rows) == [exists |-> TRUE, columns |-> columns, rows |-> rows]

\* DataFrame.empty
empty(df) == df.columns = {} \/ df.rows = <<>>

RECURSIVE Sum(_)
Sum(s) == IF s = <<>> THEN 0 ELSE Sum(SubSeq(s, 1, Len(s) - 1)) + s[Len(s)]

\* Series.mean(): NaN entries are skipped; the mean of nothing is 0/0
mean(values) ==
    LET present == SelectSeq(values, LAMBDA x : ~x.nan)
    IN  <<Sum([i \in 1..Len(present) |-> present[i].v]), Len(present)>>

is_nan_mean(q) == q[2] = 0

Perms(n) == {p \in [1..n -> 1..n] : \A i, j \in 1..n : i # j => p[i] # p[j]}

----------------------------------------------------------------------------
(* load_data, load_routes *)

required_points == <<"name", "category", "latitude", "longitude">>
required_routes == <<"route_name", "route_type", "latitude", "longitude">>

missing_columns(required, df) == SelectSeq(required, LAMBDA c : c \notin df.columns)

clean_coordinates_latitude_only_bug(rows) ==
    LET rows1 == SelectSeq(rows, LAMBDA r : ~isna(r.latitude) /\ ~isna(r.longitude))
        rows2 == [i \in 1..Len(rows1) |->
                    [rows1[i] EXCEPT !.latitude = to_numeric(@),
                                     !.longitude = to_numeric(@)]]
    IN  SelectSeq(rows2, LAMBDA r : ~r.latitude.nan)

\* dropna(subset=[latitude, longitude]); to_numeric(coerce) on both; dropna again
clean_coordinates(rows) ==
    LET rows1 == SelectSeq(rows, LAMBDA r : ~isna(r.latitude) /\ ~isna(r.longitude))
        rows2 == [i \in 1..Len(rows1) |->
                    [rows1[i] EXCEPT !.latitude = to_numeric(@),
                                     !.longitude = to_numeric(@)]]
    IN  SelectSeq(rows2, LAMBDA r : ~r.latitude.nan /\ ~r.longitude.nan)

load_data(csv) ==
    IF ~csv.exists THEN [err |-> [type |-> "FileNotFoundError", cols |-> <<>>], df |-> NoFile]
    ELSE IF missing_columns(required_points, csv) # <<>>
    THEN [err |-> [type |-> "ValueError: Missing required columns",
                   cols |-> missing_columns(required_points, csv)],
          df |-> NoFile]
    ELSE [err |-> NoErr, df |-> Frame(csv.columns, clean_coordinates(csv.rows))]

load_routes_required_bug(csv) ==
    IF ~csv.exists THEN [err |-> [type |-> "FileNotFoundError", cols |-> <<>>], df |-> NoFile]
    ELSE IF missing_columns(required_routes, csv) # <<>>
    THEN [err |-> [type |-> "ValueError: Routes file is missing required columns",
                   cols |-> missing_columns(required_routes, csv)],
          df |-> NoFile]
    ELSE LET rows == clean_coordinates(csv.rows)
         IN  [err |-> NoErr,
              df |-> Frame(csv.columns \cup {"seq"},
                           [i \in 1..Len(rows) |->
                              [rows[i] EXCEPT !.seq = IF "seq" \in csv.columns
                                                      THEN to_numeric(@) ELSE Num(0)]])]

load_routes(csv) ==
    IF ~csv.exists THEN [err |-> NoErr, df |-> EmptyFrame]
    ELSE IF missing_columns(required_routes, csv) # <<>>
    THEN [err |-> [type |-> "ValueError: Routes file is missing required columns",
                   cols |-> missing_columns(required_routes, csv)],
          df |-> NoFile]
    ELSE LET rows == clean_coordinates(csv.rows)
         IN  [err |-> NoErr,
              df |-> Frame(csv.columns \cup {"seq"},
                           [i \in 1..Len(rows) |->
                              [rows[i] EXCEPT !.seq = IF "seq" \in csv.columns
                                                      THEN to_numeric(@) ELSE Num(0)]])]

----------------------------------------------------------------------------
(* create_map *)

type_colors(t) ==
    CASE t = <<"t","r","a","m">> -> "blue"
      [] t = <<"b","u","s">> -> "red"
      [] t = <<"w","a","l","k">> -> "green"
      [] t = <<"b","i","k","e">> -> "purple"
      [] OTHER -> ""

known_types == {<<"t","r","a","m">>, <<"b","u","s">>, <<"w","a","l","k">>, <<"b","i","k","e">>}
default_color == "orange"

normalize_type_no_strip_bug(cell) == lower(str(cell))

\* str(route_type).strip().lower()
normalize_type(cell) == lower(strip(str(cell)))

\* type_colors.get(route_type, default_color) of the normalized type
resolve_color(cell) ==
    IF normalize_type(cell) \in known_types
    THEN type_colors(normalize_type(cell)) ELSE default_color

\* route names in the order groupby iterates them (sorted keys)
RouteNameOrder == <<"R1", "R2">>

\* groupby("route_name"): keys sorted, rows without a route name left out
group_keys(df) ==
    SelectSeq(RouteNameOrder,
              LAMBDA k : \E i \in 1..Len(df.rows) : df.rows[i].route_name = k)

group_rows(df, k) == SelectSeq(df.rows, LAMBDA r : r.route_name = k)

\* the orders sort_values("seq") may return (default kind="quicksort", which
\* is not stable): ascending seq, NaN seq last in their original order, rows
\* of equal seq in any order
sort_values(group) ==
    LET n == Len(group)
        ok(p) ==
          \A i, j \in 1..n : i < j =>
              /\ group[p[i]].seq.nan => group[p[j]].seq.nan
              /\ (~group[p[i]].seq.nan /\ ~group[p[j]].seq.nan)
                    => group[p[i]].seq.v <= group[p[j]].seq.v
              /\ (group[p[i]].seq.nan /\ group[p[j]].seq.nan) => p[i] < p[j]
    IN  {[i \in 1..n |-> group[p[i]]] : p \in {q \in Perms(n) : ok(q)}}

\* one choice of sort_values outcome for every route name
sort_choices(df) ==
    LET keys == group_keys(df)
        all == UNION {sort_values(group_rows(df, keys[i])) : i \in 1..Len(keys)}
    IN  {f \in [1..Len(keys) -> all] :
            \A i \in 1..Len(keys) : f[i] \in sort_values(group_rows(df, keys[i]))}

center_of_points_only_bug(dfp, dfr) ==
    LET plat == [i \in 1..Len(dfp.rows) |-> dfp.rows[i].latitude]
        plon == [i \in 1..Len(dfp.rows) |-> dfp.rows[i].longitude]
    IN  <<mean(plat), mean(plon)>>

center_of(dfp, dfr) ==
    LET plat == [i \in 1..Len(dfp.rows) |-> dfp.rows[i].latitude]
        plon == [i \in 1..Len(dfp.rows) |-> dfp.rows[i].longitude]
        rlat == [i \in 1..Len(dfr.rows) |-> dfr.rows[i].latitude]
        rlon == [i \in 1..Len(dfr.rows) |-> dfr.rows[i].longitude]
    IN  IF ~empty(dfr)
        THEN <<mean(plat \o rlat), mean(plon \o rlon)>>
        ELSE <<mean(plat), mean(plon)>>

point_markers(dfp) ==
    [i \in 1..Len(dfp.rows) |->
        Child("CircleMarker", dfp.rows[i].name, "",
              << <<dfp.rows[i].latitude.v, dfp.rows[i].longitude.v>> >>)]

route_polylines(dfr, sorted) ==
    IF empty(dfr) THEN <<>>
    ELSE LET keys == group_keys(dfr)
         IN  [i \in 1..Len(keys) |->
                Child("PolyLine",
                      <<keys[i], normalize_type(sorted[i][1].route_type)>>,
                      resolve_color(sorted[i][1].route_type),
                      [j \in 1..Len(sorted[i]) |->
                          <<sorted[i][j].latitude.v, sorted[i][j].longitude.v>>])]

create_map(dfp, dfr, sorted) ==
    add_layer_control(
        [location |-> center_of(dfp, dfr),
         tiles |-> "CartoDB positron",
         children |-> point_markers(dfp) \o route_polylines(dfr, sorted)])

----------------------------------------------------------------------------
(* build_summary_table_html, build_report *)

value_counts_per_row_bug(values) ==
    LET n == Len(values)
        count(k) == Cardinality({i \in 1..Len(values) : values[i] = k})
        ok(p) == \A i, j \in 1..n : i < j => count(values[p[i]]) >= count(values[p[j]])
    IN  {[i \in 1..n |-> <<values[p[i]], count(values[p[i]])>>] : p \in {q \in Perms(n) : ok(q)}}

\* the orders value_counts() may return: one <<key, count>> per distinct
\* non-missing value, descending count; value_counts sorts the first-seen
\* keys with the default, not stable, sort, so equal counts come in any order
value_counts(values) ==
    LET keys == first_seen(values)
        n == Len(keys)
        count(k) == Cardinality({i \in 1..Len(values) : values[i] = k})
        ok(p) == \A i, j \in 1..n : i < j => count(keys[p[i]]) >= count(keys[p[j]])
    IN  {[i \in 1..n |-> <<keys[p[i]], count(keys[p[i]])>>] : p \in {q \in Perms(n) : ok(q)}}

Part(kind, text, columns, rows) ==
    [kind |-> kind, text |-> text, columns |-> columns, rows |-> rows]

category_values(dfp) ==
    SelectSeq([i \in 1..Len(dfp.rows) |-> dfp.rows[i].category], LAMBDA c : ~isna(c))

route_type_values_no_strip_bug(dfr) ==
    SelectSeq([i \in 1..Len(dfr.rows) |-> dfr.rows[i].route_type], LAMBDA c : ~isna(c))

\* route_type.dropna().astype(str).str.strip()
route_type_values(dfr) ==
    LET present == SelectSeq([i \in 1..Len(dfr.rows) |-> dfr.rows[i].route_type],
                             LAMBDA c : ~isna(c))
    IN  [i \in 1..Len(present) |-> strip(present[i])]

build_summary_table_html(dfp, dfr, cat_counts, route_counts) ==
    LET cat_part ==
          IF "category" \in dfp.columns
          THEN <<Part("table", "", <<"Category", "Locations">>, cat_counts)>>
          ELSE <<Part("p", "No category column found for locations.", <<>>, <<>>)>>
        route_part ==
          IF ~empty(dfr) /\ "route_type" \in dfr.columns /\ route_counts # <<>>
          THEN <<Part("h3", "Route segments by type", <<>>, <<>>),
                 Part("table", "", <<"Route type", "Segments">>, route_counts)>>
          ELSE <<>>
    IN  cat_part \o route_part

build_report(dfp, dfr, cat_counts, route_counts) ==
    [written |-> TRUE,
     n_points |-> Len(dfp.rows),
     parts |-> build_summary_table_html(dfp, dfr, cat_counts, route_counts)]

----------------------------------------------------------------------------
(* __main__ of excel_to_map_report.py.  The notebook cells at module level   *)
(* (lines 127-130, 177) make the same calls on the same files first, so the *)
(* same step is the first to fail; one pass is modelled.                    *)

LoadData ==
    /\ pc = "load_data"
    /\ LET r == load_data(points_csv)
       IN  /\ err' = r.err
           /\ df_points' = r.df
           /\ pc' = IF r.err = NoErr THEN "load_routes" ELSE "failed"
    /\ UNCHANGED <<argv, mode, m, output_name, points_csv, routes_csv, df_routes, report>>

LoadRoutes ==
    /\ pc = "load_routes"
    /\ LET r == load_routes(routes_csv)
       IN  /\ err' = r.err
           /\ df_routes' = r.df
           /\ pc' = IF r.err = NoErr THEN "create_map" ELSE "failed"
    /\ UNCHANGED <<argv, mode, m, output_name, points_csv, routes_csv, df_points, report>>

\* folium.Map is handed the computed center; whether the library refuses a
\* NaN location depends on its version, so both outcomes are kept
CreateMap ==
    /\ pc = "create_map"
    /\ \E sorted \in sort_choices(df_routes), refuses_nan \in BOOLEAN :
         LET built == create_map(df_points, df_routes, sorted)
             nan == is_nan_mean(built.location[1]) \/ is_nan_mean(built.location[2])
         IN  IF nan /\ refuses_nan
             THEN /\ m' = [NoMap EXCEPT !.location = built.location]
                  /\ err' = [type |-> "ValueError: Location values cannot contain NaNs",
                             cols |-> <<>>]
                  /\ pc' = "failed"
             ELSE /\ m' = built
                  /\ err' = err
                  /\ pc' = "build_report"
    /\ UNCHANGED <<argv, mode, output_name, points_csv, routes_csv,
                   df_points, df_routes, report>>

BuildReport ==
    /\ pc = "build_report"
    /\ \E cat_counts \in value_counts(category_values(df_points)),
          route_counts \in value_counts(route_type_values(df_routes)) :
         report' = build_report(df_points, df_routes, cat_counts, route_counts)
    /\ pc' = "done"
    /\ UNCHANGED <<argv, mode, m, output_name, points_csv, routes_csv,
                   df_points, df_routes, err>>

Next == LoadData \/ LoadRoutes \/ CreateMap \/ BuildReport

----------------------------------------------------------------------------------------------------------------------------------------
(* Input files explored *)

S_park == <<"p","a","r","k">>
S_museum == <<"m","u","s","e","u","m">>
S_bus == <<"b","u","s">>
S_tram == <<"t","r","a","m">>
S_bus_padded == <<" ","b","u","s">>
S_Tram_padded == <<" ","T","r","a","m">>

PointCols == {"name", "category", "latitude", "longitude"}
RouteCols == {"route_name", "route_type", "latitude", "longitude"}

\* point rows 1..n, named by position, row i holding the cells f[i]
PointRows(n, f) ==
    [i \in 1..n |-> [name |-> <<"p", i>>, category |-> f[i][1],
                     latitude |-> f[i][2], longitude |-> f[i][3]]]

\* route rows 1..n, row i holding the cells f[i]
RouteRows(n, f) ==
    [i \in 1..n |-> [route_name |-> f[i][1], route_type |-> f[i][2],
                     latitude |-> f[i][3], longitude |-> f[i][4], seq |-> f[i][5]]]

\* route rows 1..n whose coordinates are the row's position (row 1 is at
\* (1, 1), row 2 at (2, 2), ...)
PlacedRouteRows(n, f) ==
    [i \in 1..n |-> [route_name |-> f[i][1], route_type |-> f[i][2],
                     latitude |-> <<Digits[i + 1]>>, longitude |-> <<Digits[i + 1]>>,
                     seq |-> f[i][3]]]

OnePoint == Frame(PointCols, PointRows(1, << <<S_park, <<"4">>, <<"6">> >> >>))

RawCells == {<<>>, <<"x">>, <<"7">>, <<"1","2">>, <<"1","x">>}

Pads == UNION {[1..n -> Whitespace] : n \in 0..MaxPad}

TypeWords ==
    known_types \cup
    { <<"f","e","r","r","y">>, <<"b","u"," ","s">>, <<"b","u","s","s">>,
      <<"n","a","n">>, <<>> }

TypeStrings ==
    {l \o w \o r : l \in Pads, r \in Pads, w \in UNION {Spellings(t) : t \in TypeWords}}

\* everything but the two input files
InitReport ==
    /\ pc = "load_data"
    /\ argv = <<>>
    /\ mode = <<>>
    /\ m = NoMap
    /\ output_name = <<>>
    /\ df_points = NoFile
    /\ df_routes = NoFile
    /\ report = NoReport
    /\ err = NoErr

\* points files with any subset of the columns and raw coordinate cells
InitLoad ==
    /\ InitReport
    /\ routes_csv = NoFile
    /\ \/ points_csv = NoFile
       \/ \E n \in 0..MaxRawRows :
            \E f \in [1..n -> {S_park} \X RawCells \X RawCells] :
                points_csv = Frame(PointCols, PointRows(n, f))
       \/ \E cols \in SUBSET PointCols :
            \E f \in [1..1 -> {S_park} \X {<<"7">>, <<"x">>} \X {<<"7">>}] :
                points_csv = Frame(cols, PointRows(1, f))

\* points and route samples at various coordinates; the routes file may be
\* missing, header-only, or hold rows that are all dropped
InitCenter ==
    /\ InitReport
    /\ \E n \in 0..MaxCoordRows :
         \E f \in [1..n -> {S_park} \X {<<"1">>, <<"4">>, <<"x">>} \X {<<"2">>, <<"6">>}] :
             points_csv = Frame(PointCols, PointRows(n, f))
    /\ \/ routes_csv = NoFile
       \/ \E n \in 0..MaxCoordRows :
            \E f \in [1..n -> {"R1"} \X {S_bus} \X {<<"3">>, <<"x">>}
                                     \X {<<"5">>, <<"9">>} \X {<<>>}] :
                routes_csv = Frame(RouteCols, RouteRows(n, f))

\* route samples of two routes, with a seq column or without one
InitRoutes ==
    /\ InitReport
    /\ points_csv = OnePoint
    /\ \E n \in 0..MaxSamples :
         \/ \E f \in [1..n -> {"R1", "R2"} \X {S_bus, S_Tram_padded}
                                   \X {<<"1">>, <<"2">>, <<"3">>, <<"x">>}] :
               routes_csv = Frame(RouteCols \cup {"seq"}, PlacedRouteRows(n, f))
         \/ \E f \in [1..n -> {"R1", "R2"} \X {S_bus, S_Tram_padded} \X {<<>>}] :
               routes_csv = Frame(RouteCols, PlacedRouteRows(n, f))

\* one route sample, with or without a route name, of any type text
InitColor ==
    /\ InitReport
    /\ points_csv = OnePoint
    /\ \E f \in [1..1 -> {"R1", ""} \X TypeStrings \X {<<>>}] :
           routes_csv = Frame(RouteCols, PlacedRouteRows(1, f))

\* points of a few categories, some without one
InitSummary ==
    /\ InitReport
    /\ routes_csv = NoFile
    /\ \E n \in 0..MaxPoints :
         \E f \in [1..n -> {S_park, S_museum, upper(S_park), <<>>}
                                \X {<<"4">>} \X {<<"6">>}] :
             points_csv = Frame(PointCols, PointRows(n, f))

\* route samples of two routes and a few type texts, some without a type
InitTypes ==
    /\ InitReport
    /\ points_csv = OnePoint
    /\ \E n \in 0..MaxTypeRows :
         \E f \in [1..n -> {"R1", "R2"} \X {S_bus, S_bus_padded, S_tram, <<>>}
                                   \X {<<>>}] :
             routes_csv = Frame(RouteCols, PlacedRouteRows(n, f))

SpecLoad == InitLoad /\ [][Next]_vars
SpecCenter == InitCenter /\ [][Next]_vars
SpecRoutes == InitRoutes /\ [][Next]_vars
SpecColor == InitColor /\ [][Next]_vars
SpecSummary == InitSummary /\ [][Next]_vars
SpecTypes == InitTypes /\ [][Next]_vars

----------------
(* Properties: helpers *)

Range(s) == {s[i] : i \in 1..Len(s)}

ChildrenOf(mp, kind) == SelectSeq(mp.children, LAMBDA c : c.kind = kind)

AllLayerTypes == {"routes", "landmarks", "heatmap"}

\* the optional layer types present among the children of a city map
layer_types(mp) ==
    {t \in AllLayerTypes :
        \E i \in 1..Len(mp.children) :
            LET c == mp.children[i]
            IN  \/ /\ t = "routes"
                   /\ c.kind = "FeatureGroup"
                   /\ c.name \in {"Tram Line", "Bus Route"}
                \/ /\ t = "landmarks"
                   /\ c.kind = "FeatureGroup"
                   /\ c.name \in {"Landmarks: Library", "Landmarks: Park",
                                  "Landmarks: Museum", "Landmarks: Square",
                                  "Landmarks: Market"}
                \/ /\ t = "heatmap"
                   /\ c.kind = "HeatMap"}

----------------------------------------------------------------------------
(* city_story_map.py properties *)

\* C1: for each of the five modes, the saved map holds exactly the optional
\* layer types that mode names: base none, routes / landmarks / heatmap only
\* their own, full all three.
C1_ModeLayers ==
    pc = "saved" =>
        /\ mode = S_base => layer_types(m) = {}
        /\ mode = S_routes => layer_types(m) = {"routes"}
        /\ mode = S_landmarks => layer_types(m) = {"landmarks"}
        /\ mode = S_heatmap => layer_types(m) = {"heatmap"}
        /\ mode = S_full => layer_types(m) = AllLayerTypes

C1_Witness ==
    /\ pc = "saved"
    /\ argv = <<S_landmarks>>
    /\ layer_types(m) = {"landmarks"}

\* C2 as stated: every argument that is not literally one of the five mode
\* names builds the layer set of full, and no argument builds that of base.
C2_AsStated ==
    pc = "saved" =>
        /\ argv = <<>> => layer_types(m) = {}
        /\ (argv # <<>> /\ argv[1] \notin valid_modes) => layer_types(m) = AllLayerTypes

\* C2 amended: an argument whose lowercase form is none of the five mode
\* names is not rejected and builds the layer set of full; an argument that
\* is a mode name in another letter case builds that mode; no argument
\* builds the layer set of base.
C2_UnknownModeIsFull ==
    /\ pc # "main" => mode \in valid_modes
    /\ pc = "saved" =>
        /\ argv = <<>> => layer_types(m) = {}
        /\ (argv # <<>> /\ \A v \in valid_modes : Len(v) # Len(argv[1]) \/
                \E i \in 1..Len(v) : v[i] # lower_char(argv[1][i]))
              => layer_types(m) = AllLayerTypes
        /\ (argv # <<>> /\ argv[1] \notin valid_modes /\
                \E v \in valid_modes : Len(v) = Len(argv[1]) /\
                    \A i \in 1..Len(v) : v[i] = lower_char(argv[1][i]))
              => mode = [i \in 1..Len(argv[1]) |-> lower_char(argv[1][i])]

C2_Witness ==
    /\ pc = "saved"
    /\ argv = << <<"x","y","z">> >>
    /\ layer_types(m) = AllLayerTypes

----------------------------------------------------------------------------
(* excel_to_map_report.py properties *)

MapBuilt == pc \in {"build_report", "done"}

DigitChars == {"0","1","2","3","4","5","6","7","8","9"}

\* the cell is present and is the text of a number
CellIsNumber(cell) == cell # <<>> /\ \A i \in 1..Len(cell) : cell[i] \in DigitChars

RowIsValid(r) == CellIsNumber(r.latitude) /\ CellIsNumber(r.longitude)

AbsentPointCols ==
    {c \in {"name", "category", "latitude", "longitude"} : c \notin points_csv.columns}

\* C3: loading a points file either fails with the error that names exactly
\* the absent required columns, or returns exactly the rows whose latitude
\* and longitude are both present and numeric, in their original order,
\* without an error.
C3_LoadData ==
    (pc # "load_data" /\ points_csv.exists) =>
        IF AbsentPointCols # {}
        THEN /\ pc = "failed"
             /\ err.type = "ValueError: Missing required columns"
             /\ Range(err.cols) = AbsentPointCols
             /\ Len(err.cols) = Cardinality(AbsentPointCols)
        ELSE LET kept == SelectSeq(points_csv.rows, RowIsValid)
             IN  /\ Len(df_points.rows) = Len(kept)
                 /\ \A i \in 1..Len(kept) :
                        /\ df_points.rows[i].name = kept[i].name
                        /\ df_points.rows[i].category = kept[i].category
                        /\ ~df_points.rows[i].latitude.nan
                        /\ ~df_points.rows[i].longitude.nan
                 /\ pc = "load_routes" => err = NoErr

C3_Witness ==
    /\ pc = "load_routes"
    /\ Len(points_csv.rows) = 2
    /\ points_csv.rows[1].latitude = <<"1","x">>
    /\ Len(df_points.rows) = 1
    /\ df_points.rows[1].name = <<"p", 2>>

SumLat(rows) == Sum([i \in 1..Len(rows) |-> rows[i].latitude.v])
SumLon(rows) == Sum([i \in 1..Len(rows) |-> rows[i].longitude.v])

\* C4: with at least one point, the map center is the unweighted mean over
\* the points and the route samples together, each row counted once:
\* center = (sum over both collections) / (total number of rows), for
\* latitude and for longitude.
C4_CenterIsMean ==
    (MapBuilt /\ df_points.rows # <<>>) =>
        LET n == Len(df_points.rows) + Len(df_routes.rows)
            lat == m.location[1]
            lon == m.location[2]
        IN  /\ lat[2] # 0
            /\ lon[2] # 0
            /\ lat[1] * n = (SumLat(df_points.rows) + SumLat(df_routes.rows)) * lat[2]
            /\ lon[1] * n = (SumLon(df_points.rows) + SumLon(df_routes.rows)) * lon[2]

C4_Witness ==
    /\ pc = "done"
    /\ Len(df_points.rows) = 2
    /\ Len(df_routes.rows) = 1
    /\ m.location[1] = <<8, 3>>
    /\ m.location[2] = <<17, 3>>

\* C5 as stated: with no valid point and no route sample the center
\* computation fails with EmptyInputError and no center is produced.
C5_EmptyInputError ==
    (pc \in {"build_report", "done", "failed"} /\ df_points.rows = <<>> /\ empty(df_routes)) =>
        /\ pc = "failed"
        /\ err.type = "EmptyInputError"
        /\ m.location = <<>>

\* the order a stable ascending sort by seq gives: by seq, rows without a
\* numeric seq last, equal seq in original row order
StableBySeq(group) ==
    LET n == Len(group)
        before(i, j) ==
          IF group[i].seq.nan # group[j].seq.nan THEN group[j].seq.nan
          ELSE IF group[i].seq.nan THEN i < j
          ELSE \/ group[i].seq.v < group[j].seq.v
               \/ group[i].seq.v = group[j].seq.v /\ i < j
        p == CHOOSE q \in Perms(n) : \A a, b \in 1..n : a < b => before(q[a], q[b])
    IN  [i \in 1..n |-> group[p[i]]]

\* C6 as stated: every route's polyline lists the route's samples sorted
\* ascending by seq, samples of equal seq (all of them when the seq column
\* is absent) in their original row order.
C6_StableRouteOrder ==
    MapBuilt =>
        \A k \in {"R1", "R2"} :
            LET group == SelectSeq(df_routes.rows, LAMBDA r : r.route_name = k)
                want == StableBySeq(group)
            IN  group # <<>> =>
                  \E i \in 1..Len(m.children) :
                      /\ m.children[i].kind = "PolyLine"
                      /\ m.children[i].name[1] = k
                      /\ m.children[i].locations =
                            [j \in 1..Len(want) |->
                                <<want[j].latitude.v, want[j].longitude.v>>]

\* the text is key, in any letter case, with whitespace around it
IsSpellingOf(cell, key) ==
    \E a \in 1..(Len(cell) + 1), b \in 0..Len(cell) :
        /\ b - a + 1 = Len(key)
        /\ \A i \in 1..Len(cell) : (i < a \/ i > b) => cell[i] \in {" ", "\t"}
        /\ \A i \in 1..Len(key) :
              cell[a + i - 1] = key[i] \/ cell[a + i - 1] = upper_char(key[i])

ColorTable ==
    << <<S_tram, "blue">>, <<S_bus, "red">>,
       << <<"w","a","l","k">>, "green">>, << <<"b","i","k","e">>, "purple">> >>

\* C7: the color of a route is the mapped color when its route type,
\* trimmed and lowercased, is tram, bus, walk or bike, and the default
\* color otherwise; every route gets one of these five colors.
C7_ColorResolution ==
    MapBuilt =>
        \A r \in Range(df_routes.rows) :
            r.route_name # "" =>
                \E i \in 1..Len(m.children) :
                    LET c == m.children[i]
                    IN  /\ c.kind = "PolyLine"
                        /\ c.name[1] = r.route_name
                        /\ c.color \in {"blue", "red", "green", "purple", "orange"}
                        /\ \A e \in Range(ColorTable) :
                              IsSpellingOf(r.route_type, e[1]) => c.color = e[2]
                        /\ (\A e \in Range(ColorTable) : ~IsSpellingOf(r.route_type, e[1]))
                              => c.color = "orange"

C7_Witness ==
    /\ pc = "done"
    /\ Len(df_routes.rows) = 1
    /\ df_routes.rows[1].route_type = <<" ","B","u","s","\t">>
    /\ Len(ChildrenOf(m, "PolyLine")) = 1
    /\ ChildrenOf(m, "PolyLine")[1].color = "red"

\* the <<label, count>> rows are one per element of labels, each counting
\* the occurrences of its label in values, in descending count
IsCountTable(rows, values) ==
    /\ \A i, j \in 1..Len(rows) : i # j => rows[i][1] # rows[j][1]
    /\ {rows[i][1] : i \in 1..Len(rows)} = Range(values)
    /\ \A i \in 1..Len(rows) :
          rows[i][2] = Cardinality({j \in 1..Len(values) : values[j] = rows[i][1]})
    /\ \A i, j \in 1..Len(rows) : i < j => rows[i][2] >= rows[j][2]

FirstIndex(values, x) == MinOf({i \in 1..Len(values) : values[i] = x})

\* rows of equal count are in the order their labels first occur in values
TiesFirstSeen(rows, values) ==
    \A i, j \in 1..Len(rows) :
        (i < j /\ rows[i][2] = rows[j][2])
            => FirstIndex(values, rows[i][1]) < FirstIndex(values, rows[j][1])

PresentCategories ==
    SelectSeq([i \in 1..Len(df_points.rows) |-> df_points.rows[i].category],
              LAMBDA c : c # <<>>)

C9_RoutesOptional ==
    (pc \in {"create_map", "build_report", "done", "failed"}
        /\ (~routes_csv.exists \/ SelectSeq(routes_csv.rows, RowIsValid) = <<>>)) =>
        /\ (df_points.rows # <<>>) => (pc # "failed" /\ err = NoErr)
        /\ MapBuilt =>
              /\ ChildrenOf(m, "PolyLine") = <<>>
              /\ Len(ChildrenOf(m, "CircleMarker")) = Len(df_points.rows)
              /\ \A i \in 1..Len(df_points.rows) :
                    ChildrenOf(m, "CircleMarker")[i].name = df_points.rows[i].name
        /\ pc = "done" =>
              /\ report.written
              /\ Len(report.parts) = 1
              /\ report.parts[1].kind = "table"
              /\ report.parts[1].columns = <<"Category", "Locations">>

C9_Witness ==
    /\ pc = "done"
    /\ ~routes_csv.exists
    /\ Len(ChildrenOf(m, "CircleMarker")) = 2
    /\ Len(report.parts) = 1

C9_WitnessNoRows ==
    /\ pc = "done"
    /\ routes_csv.exists
    /\ Len(routes_csv.rows) = 1
    /\ df_routes.rows = <<>>
    /\ Len(report.parts) = 1

PresentTypes ==
    LET present == SelectSeq([i \in 1..Len(df_routes.rows) |-> df_routes.rows[i].route_type],
                             LAMBDA c : c # <<>>)
    IN  [i \in 1..Len(present) |-> strip(present[i])]

RouteTable == report.parts[3]
HasRouteTable == Len(report.parts) = 3

\* C10 as stated (for route files in which every sample has a route type):
\* the count shown for a type is the number of routes (one per route name,
\* typed by its first sample) having that type, in descending count, equal
\* counts in first-seen order.
C10_AsStated ==
    (pc = "done" /\ HasRouteTable /\ Len(PresentTypes) = Len(df_routes.rows)) =>
        /\ \A i \in 1..Len(RouteTable.rows) :
              RouteTable.rows[i][2] =
                  Cardinality({j \in 1..Len(m.children) :
                                  /\ m.children[j].kind = "PolyLine"
                                  /\ m.children[j].name[2] = RouteTable.rows[i][1]})
        /\ \A i, j \in 1..Len(RouteTable.rows) :
              i < j => RouteTable.rows[i][2] >= RouteTable.rows[j][2]
        /\ TiesFirstSeen(RouteTable.rows, PresentTypes)

\* C10 amended: the route-type table is computed over the route sample
\* rows: the count shown for a type is the number of sample rows whose
\* route type, trimmed, is that type (rows without a route type are left
\* out), in descending count; the order of equal counts is not fixed; with
\* no such row there is no table.
C10_CountsSampleRows ==
    pc = "done" =>
        IF PresentTypes = <<>>
        THEN ~HasRouteTable
        ELSE /\ HasRouteTable
             /\ report.parts[2].kind = "h3"
             /\ RouteTable.columns = <<"Route type", "Segments">>
             /\ IsCountTable(RouteTable.rows, PresentTypes)

C10_Witness ==
    /\ pc = "done"
    /\ HasRouteTable
    /\ Len(ChildrenOf(m, "PolyLine")) = 1
    /\ RouteTable.rows = << <<S_bus, 2>>, <<S_tram, 1>> >>

====
